---- MODULE Spec2Model ----
(***************************************************************************)
(* llamatrix: a Matrix <-> ollama bridge.                                  *)
(*                                                                         *)
(* The model covers src/main.rs (llama_task, the routing actor; and        *)
(* handle_msg_event, the chat-event handler with its heartbeat loop) and   *)
(* src/llama.rs (Chat, the per-room LLM session).                          *)
(*                                                                         *)
(* Text is modelled as a sequence of one-character strings so that         *)
(* strip_prefix and the comparison with the clear literal are computed,    *)
(* not assumed.                                                            *)
(*                                                                         *)
(* Two specifications share the actions: Spec runs NHandlers handlers      *)
(* concurrently, one event each; SpecSeq dispatches any number of events   *)
(* of every kind one after the other.                                      *)
(***************************************************************************)
EXTENDS Integers, Sequences, FiniteSets, TLC

\* ------------------------------------------------------------------ bounds
\* Number of handle_msg_event instances that run concurrently (Spec).
NHandlers == 2
\* Total number of prompts (events that lead to a LlamaReq::Chat) handled
\* when events are dispatched one after the other (SpecSeq).
MaxPrompts == 2
\* Capacity of the mpsc mailbox (mpsc::channel(1024) in main, scaled down).
MailboxCap == 2
\* Total number of times the 3 s heartbeat timer may win the select!.
MaxBeats == 1
MaxWait == 5
MaxNotice == 1

Handlers == 1..NHandlers

\* ------------------------------------------------------------------- texts
T_llama == <<"!", "l", "l", "a", "m", "a">>
T_clear == <<"c", "l", "e", "a", "r">>
T_hello == <<"h", "e", "l", "l", "o">>
\* The literal the handler compares the prompt with (main.rs:158).
T_llamaclear == T_llama \o T_clear
\* The text of the confirmation (main.rs:163).
T_ContextCleared == <<"C", "o", "n", "t", "e", "x", "t", " ", "c", "l", "e", "a", "r", "e", "d">>

\* Message bodies the chat surface delivers.
B_hello == T_hello
B_llama_hello == T_llama \o <<" ">> \o T_hello
B_llamaclear == T_llamaclear
B_llama_llamaclear == T_llama \o T_llamaclear
Bodies == {B_hello, B_llama_hello, B_llamaclear, B_llama_llamaclear}

\* Two rooms: "d" is a one-to-one (direct) room, "g" a multi-party room.
Rooms == {"d", "g"}
\* Faulty variant: every room counts as a one-to-one room.
is_direct_any(rm) == rm \in Rooms
is_direct(rm) == rm = "d"

\* A chat event: the room it came from, whether the bot itself sent it, the
\* message type and, for text, the body.
Events ==
    [room : Rooms, sender : {"user"}, msgtype : {"text"}, body : Bodies]
    \cup [room : Rooms, sender : {"bot"}, msgtype : {"text"}, body : {B_hello}]
    \cup [room : Rooms, sender : {"user"}, msgtype : {"other"}, body : {<<>>}]
Ev(rm, b) == [room |-> rm, sender |-> "user", msgtype |-> "text", body |-> b]
\* The events that lead to a request, one of each kind and room.
CoreEvents == {Ev("d", B_hello), Ev("d", B_llama_llamaclear), Ev("g", B_llama_hello)}
NoEvent == [room |-> "d", sender |-> "none", msgtype |-> "none", body |-> <<>>]

\* --------------------------------------------------------- str::strip_prefix
None == [some |-> FALSE, val |-> <<>>]
Some(v) == [some |-> TRUE, val |-> v]

\* Faulty variant: strips the prefix and any blanks that follow it.
RECURSIVE TrimStart(_)
TrimStart(s) == IF s # <<>> /\ Head(s) = " " THEN TrimStart(Tail(s)) ELSE s
strip_prefix_trim(body, pre) ==
    IF Len(body) >= Len(pre) /\ SubSeq(body, 1, Len(pre)) = pre
    THEN Some(TrimStart(SubSeq(body, Len(pre) + 1, Len(body))))
    ELSE None

strip_prefix(body, pre) ==
    IF Len(body) >= Len(pre) /\ SubSeq(body, 1, Len(pre)) = pre
    THEN Some(SubSeq(body, Len(pre) + 1, Len(body)))
    ELSE None

\* main.rs:150
matched(ev) == strip_prefix(ev.body, T_llama)
\* main.rs:156
prompt(ev) == IF matched(ev).some THEN matched(ev).val ELSE ev.body

\* What handle_msg_event decides to do with an event, lines 144-168:
\* "ignore" (early return), "warn" (non-text), "ClrCtx" or "Chat".
Route(ev) ==
    IF ev.sender = "bot" THEN "ignore"
    ELSE IF ev.msgtype # "text" THEN "warn"
    ELSE IF ~is_direct(ev.room) /\ ~matched(ev).some THEN "ignore"
    ELSE IF prompt(ev) = T_llamaclear THEN "ClrCtx"
    ELSE "Chat"

\* ------------------------------------------------------------ requests
\* LlamaReq::Chat(LlamaChatReq{room_id, prompt, reply_tx}); reply_tx is the
\* sending half of the oneshot channel of handler reply_tx.
ChatReq(rm, p, h) == [kind |-> "Chat", room_id |-> rm, prompt |-> p, reply_tx |-> h]
\* LlamaReq::ClrCtx(room_id)
ClrCtx(rm) == [kind |-> "ClrCtx", room_id |-> rm, prompt |-> <<>>, reply_tx |-> 0]
NoReq == [kind |-> "none", room_id |-> "d", prompt |-> <<>>, reply_tx |-> 0]

\* ------------------------------------------------------------ llama.rs
Message(role, content) == [role |-> role, content |-> content]
\* The absence of a session (a key missing from the HashMap).
NoChat == [sid |-> 0, messages |-> <<>>]
\* Chat::new: an empty history; sid tells session objects apart.
ChatNew(sid) == [sid |-> sid, messages |-> <<>>]
\* Chat::message, first half: push the user message, then POST the context.
PushUser(c, p) == [c EXCEPT !.messages = Append(@, Message("user", p))]
\* Faulty variant: the reply is returned but not added to the history.
PushAssistant_dropped(c, r) == c

\* Chat::message, second half on success: push the assistant message.
PushAssistant(c, r) == [c EXCEPT !.messages = Append(@, Message("assistant", r))]

\* The reply text of the n-th backend call: replies are opaque to the bridge,
\* so each call gets a text of its own.
Digits == <<"1", "2", "3", "4", "5", "6", "7", "8", "9">>
ReplyText(n) == <<"r", Digits[n]>>

\* How a round trip can end: Ok(text); Err (network failure or malformed
\* body, the `?` at llama.rs:59/61); or a well-formed response whose role is
\* not Assistant, which trips the assert_eq! at llama.rs:63.
Outcomes == {"ok", "err", "bad_role"}

\* --------------------------------------------------------- oneshot channel
\* The channel of a handler: "none" before LlamaChatReq::new, "empty" while
\* nothing was sent, "value" once the sender sent, "closed" once the sender
\* was dropped without sending.
Slot(st, v) == [st |-> st, val |-> v]
NoSlot == Slot("none", <<>>)
EmptySlot == Slot("empty", <<>>)

\* A backend call as the history records it.
Answer(p, r) == [prompt |-> p, text |-> r]
NoAnswer == Answer(<<>>, <<>>)

VARIABLES
    hpc,        \* handler -> position in handle_msg_event
    hev,        \* handler -> the event it handles
    oneshot,    \* handler -> state of its oneshot channel
    typing,     \* handler -> the typing_notice calls it made (TRUE/FALSE), in order
    sent,       \* handler -> the room messages it sent, in order
    beats,      \* number of times a heartbeat timer has fired
    mailbox,    \* the mpsc channel's queue
    senders,    \* the Sender held by main and the client's handler context exists
    apc,        \* position of llama_task
    state,      \* llama_task's HashMap<OwnedRoomId, Chat>
    chat,       \* llama_task's local `chat` while a round trip runs
    chat_req,   \* llama_task's local `chat_req`
    calls,      \* the POST /api/chat requests in flight at the backend
    nChats,     \* number of Chat::new calls so far
    nCalls,     \* number of backend calls started so far
    last_req,   \* history: the request llama_task dequeued last
    created,    \* history: room -> Chat::new calls since the room's last clear
    cleared,    \* history: room -> what the room's last request, if a ClrCtx, did
    after_clear,\* history: `cleared` of chat_req's room when chat_req was dequeued
    turns,      \* history: room -> the Chat requests dequeued since the room's
                \*          last clear: prompt, backend call number, result
    old,        \* history: handler -> "no", or what its Chat request was when
                \*          a ClrCtx for its room was accepted after it:
                \*          "pending" (queued or in flight) or "answered"
    writes,     \* history: handler -> values llama_task sent on its oneshot
    outcome,    \* history: handler -> how its round trip ended
    generated,  \* history: handler -> the backend call answered on its oneshot:
                \*          the prompt the call carried and the reply text
    now,        \* time since handler 1 entered its loop at line 176
    sleep_until,\* when the sleep of the current select! completes
    busy_until, \* when the typing_notice(true) of line 179 returns
    resolved_at \* history: when the oneshot of handler 1 resolved (-1: not yet)

vars == <<hpc, hev, oneshot, typing, sent, beats, mailbox, senders, apc, state, chat,
          chat_req, calls, nChats, nCalls, last_req, created, cleared,
          after_clear, turns, old, writes, outcome, generated,
          now, sleep_until, busy_until, resolved_at>>

avars == <<apc, state, chat, chat_req, calls, nChats, nCalls, last_req,
           created, cleared, after_clear, turns>>
hist == <<writes, outcome, generated>>
tvars == <<now, sleep_until, busy_until, resolved_at>>

Init ==
    /\ hpc = [h \in Handlers |-> "idle"]
    /\ hev = [h \in Handlers |-> NoEvent]
    /\ oneshot = [h \in Handlers |-> NoSlot]
    /\ typing = [h \in Handlers |-> <<>>]
    /\ sent = [h \in Handlers |-> <<>>]
    /\ beats = 0
    /\ mailbox = <<>>
    /\ senders = TRUE
    /\ apc = "recv"
    /\ state = [rm \in Rooms |-> NoChat]
    /\ chat = NoChat
    /\ chat_req = NoReq
    /\ calls = {}
    /\ nChats = 0
    /\ nCalls = 0
    /\ last_req = NoReq
    /\ created = [rm \in Rooms |-> 0]
    /\ cleared = [rm \in Rooms |-> "no"]
    /\ after_clear = "no"
    /\ turns = [rm \in Rooms |-> <<>>]
    /\ old = [h \in Handlers |-> "no"]
    /\ writes = [h \in Handlers |-> <<>>]
    /\ outcome = [h \in Handlers |-> "none"]
    /\ generated = [h \in Handlers |-> NoAnswer]
    /\ now = 0
    /\ sleep_until = 0
    /\ busy_until = 0
    /\ resolved_at = -1

\* =========================================================================
\* handle_msg_event (main.rs:137-195)
\* =========================================================================

\* Handler instances are interchangeable: an event goes to the lowest free one.
NextHandler(h) == hpc[h] = "idle" /\ \A g \in Handlers : g < h => hpc[g] # "idle"

\* Prompts handled so far: round trips started, requests queued, requests
\* about to be sent.
RECURSIVE CountChat(_)
CountChat(q) ==
    IF q = <<>> THEN 0
    ELSE (IF Head(q).kind = "Chat" THEN 1 ELSE 0) + CountChat(Tail(q))
Prompts == nCalls + CountChat(mailbox) + Cardinality({h \in Handlers : hpc[h] = "send_chat"})

\* The mpsc receiver is gone once llama_task has returned or panicked.
ReceiverDropped == apc \in {"returned", "panicked"}

\* A handler that has not finished holds its clone of the Sender (`ctx`).
Running(h) == hpc[h] \in {"send_clr", "confirm", "send_chat", "waiting", "resolved"}
\* Some Sender of the mailbox exists.
Producers == senders \/ \E h \in Handlers : Running(h)

\* main.rs:258-262: client.sync returns with an error and main returns; the
\* client is dropped and with it the Sender in its handler context.
DropSenders ==
    /\ senders
    /\ senders' = FALSE
    /\ UNCHANGED <<hpc, hev, oneshot, typing, sent, beats, mailbox>>
    /\ UNCHANGED <<avars, hist, old>>

\* Lines 144-170: the early returns, the command matching and, for a prompt,
\* the first typing_notice(true). Events are dispatched by the client's sync
\* loop, so only while the client exists.
HandleEvent(h, ev) ==
    /\ senders
    /\ NextHandler(h)
    /\ hev' = [hev EXCEPT ![h] = ev]
    /\ hpc' = [hpc EXCEPT ![h] =
                 CASE Route(ev) = "ClrCtx" -> "send_clr"
                   [] Route(ev) = "Chat" -> "send_chat"
                   [] OTHER -> "returned"]
    /\ typing' = [typing EXCEPT ![h] =
                    IF Route(ev) = "Chat" THEN Append(@, TRUE) ELSE @]
    /\ UNCHANGED <<oneshot, sent, beats, mailbox>>
    /\ UNCHANGED <<avars, hist, senders, old>>

\* Faulty variant: an unbounded channel, which always has room.
unbounded(q) == Len(q) >= 0

\* main.rs:245, mpsc::channel(1024): a send completes only while fewer
\* requests than the capacity are queued.
has_capacity(q) == Len(q) < MailboxCap

\* Lines 159-161: ctx.send(LlamaReq::ClrCtx(room)).await.unwrap(). The send
\* suspends while the mailbox is full and fails once the receiver is gone.
SendClrCtx(h) ==
    /\ hpc[h] = "send_clr"
    /\ IF ReceiverDropped
       THEN /\ hpc' = [hpc EXCEPT ![h] = "panicked"]
            /\ UNCHANGED mailbox
            /\ UNCHANGED old
       ELSE /\ has_capacity(mailbox)
            /\ mailbox' = Append(mailbox, ClrCtx(hev[h].room))
            /\ hpc' = [hpc EXCEPT ![h] = "confirm"]
            /\ old' = [g \in Handlers |->
                         IF old[g] = "no" /\ hev[g].room = hev[h].room /\ oneshot[g] # NoSlot
                         THEN (IF outcome[g] = "none" THEN "pending" ELSE "answered")
                         ELSE old[g]]
    /\ UNCHANGED <<hev, oneshot, typing, sent, beats>>
    /\ UNCHANGED <<avars, hist, senders>>

\* Lines 163-167: the confirmation, sent by the handler itself.
ConfirmCleared(h) ==
    /\ hpc[h] = "confirm"
    /\ sent' = [sent EXCEPT ![h] =
                  Append(@, [room |-> hev[h].room, text |-> T_ContextCleared])]
    /\ hpc' = [hpc EXCEPT ![h] = "returned"]
    /\ UNCHANGED <<hev, oneshot, typing, beats, mailbox>>
    /\ UNCHANGED <<avars, hist, senders, old>>

\* Lines 172-174: LlamaChatReq::new creates the oneshot channel; the request
\* is sent to the mailbox. A failed send drops the request and panics.
SendChat(h) ==
    /\ hpc[h] = "send_chat"
    /\ IF ReceiverDropped
       THEN /\ hpc' = [hpc EXCEPT ![h] = "panicked"]
            /\ UNCHANGED <<mailbox, oneshot>>
       ELSE /\ has_capacity(mailbox)
            /\ mailbox' = Append(mailbox, ChatReq(hev[h].room, prompt(hev[h]), h))
            /\ oneshot' = [oneshot EXCEPT ![h] = EmptySlot]
            /\ hpc' = [hpc EXCEPT ![h] = "waiting"]
    /\ UNCHANGED <<hev, typing, sent, beats>>
    /\ UNCHANGED <<avars, hist, senders, old>>

\* Faulty variant: the timer arm stays live after the reply arm was taken.
HeartbeatArmedAfterDone(h) == hpc[h] \in {"waiting", "resolved", "returned"}

\* The select! at line 177 is polled only while the loop runs.
HeartbeatArmed(h) == hpc[h] = "waiting"

\* Lines 178-180: sleep(3 s) completes first; typing_notice(true); loop.
Heartbeat(h) ==
    /\ HeartbeatArmed(h)
    /\ beats < MaxBeats
    /\ beats' = beats + 1
    /\ typing' = [typing EXCEPT ![h] = Append(@, TRUE)]
    /\ UNCHANGED <<hpc, hev, oneshot, sent, mailbox>>
    /\ UNCHANGED <<avars, hist, senders, old>>

\* Lines 181-182: the receiver completes, with the value sent or with a
\* RecvError when the sender was dropped; typing_notice(false).
ReplyResolved(h) ==
    /\ hpc[h] = "waiting"
    /\ oneshot[h].st \in {"value", "closed"}
    /\ typing' = [typing EXCEPT ![h] = Append(@, FALSE)]
    /\ hpc' = [hpc EXCEPT ![h] = "resolved"]
    /\ UNCHANGED <<hev, oneshot, sent, beats, mailbox>>
    /\ UNCHANGED <<avars, hist, senders, old>>

\* Faulty variant: the reply goes to some other room.
OtherRoom(h) == CHOOSE rm \in Rooms : rm # hev[h].room

\* Line 183 sends on `rm`, the room the event came from.
ReplyRoom(h) == hev[h].room

\* Lines 183-186: resp.unwrap() panics on a RecvError; otherwise the text is
\* sent to the room and the loop is left.
DeliverReply(h) ==
    /\ hpc[h] = "resolved"
    /\ IF oneshot[h].st = "value"
       THEN /\ sent' = [sent EXCEPT ![h] =
                          Append(@, [room |-> ReplyRoom(h), text |-> oneshot[h].val])]
            /\ hpc' = [hpc EXCEPT ![h] = "returned"]
       ELSE /\ hpc' = [hpc EXCEPT ![h] = "panicked"]
            /\ UNCHANGED sent
    /\ UNCHANGED <<hev, oneshot, typing, beats, mailbox>>
    /\ UNCHANGED <<avars, hist, senders, old>>

\* The handler's future has completed or unwound; its locals (the event, the
\* oneshot receiver) are dropped and the slot is free for the next event.
HandlerExit(h) ==
    /\ hpc[h] \in {"returned", "panicked"}
    /\ hpc' = [hpc EXCEPT ![h] = "idle"]
    /\ hev' = [hev EXCEPT ![h] = NoEvent]
    /\ oneshot' = [oneshot EXCEPT ![h] = NoSlot]
    /\ typing' = [typing EXCEPT ![h] = <<>>]
    /\ sent' = [sent EXCEPT ![h] = <<>>]
    /\ writes' = [writes EXCEPT ![h] = <<>>]
    /\ outcome' = [outcome EXCEPT ![h] = "none"]
    /\ generated' = [generated EXCEPT ![h] = NoAnswer]
    /\ old' = [old EXCEPT ![h] = "no"]
    /\ UNCHANGED <<beats, mailbox, senders>>
    /\ UNCHANGED avars

\* =========================================================================
\* llama_task (main.rs:90-118)
\* =========================================================================

\* Faulty variant: the receiver hands out the newest request first.
recv_newest(q) == [item |-> q[Len(q)], rest |-> SubSeq(q, 1, Len(q) - 1)]

\* rx.recv() on a non-empty queue: the oldest request.
recv(q) == [item |-> Head(q), rest |-> Tail(q)]

\* Faulty variant: the loop takes the next request while a round trip is awaited.
AtRecvOrAwaiting == apc \in {"recv", "message"}

\* llama_task is at `rx.recv().await` (line 94); while it awaits
\* chat.message (line 100) it polls nothing else.
AtRecv == apc = "recv"

\* Faulty variant: a session is created for every request.
always_new(st, rm, n) == ChatNew(n + 1)

\* Lines 96-98: state.remove(&room_id).unwrap_or_else(|| Chat::new(..)),
\* where n Chat::new calls were made before.
remove_or_new(st, rm, n) == IF st[rm] # NoChat THEN st[rm] ELSE ChatNew(n + 1)

\* HashMap::remove (line 97).
remove(st, rm) == [st EXCEPT ![rm] = NoChat]

\* Faulty variant: the clear leaves the session in the map.
clear_nothing(st, rm) == st

\* Faulty variant: the clear empties the whole map (HashMap::clear).
clear_all(st, rm) == [r \in Rooms |-> NoChat]

\* Line 111: state.remove(&rm) for a ClrCtx.
clear(st, rm) == remove(st, rm)

\* Faulty variant: the session goes back into the map only after a reply.
insert_if_answered(st, rm, c) ==
    IF c.messages[Len(c.messages)].role = "assistant" THEN [st EXCEPT ![rm] = c] ELSE st

\* HashMap::insert (line 108).
insert(st, rm, c) == [st EXCEPT ![rm] = c]

\* Faulty variant: the sender is kept alive (leaked) instead of dropped.
sender_leaked(slot) == slot

\* Dropping a oneshot sender that never sent wakes the receiver with a
\* RecvError; after a send the value stays.
sender_dropped(slot) == IF slot.st = "empty" THEN Slot("closed", <<>>) ELSE slot

\* Faulty variant: the text is computed but never sent on reply_tx.
on_ok_forget(slot, resp) == slot

\* Line 102: reply_tx.send(resp) puts the text into the oneshot.
on_ok(slot, resp) == Slot("value", resp)

\* Faulty variant: the error path answers with an empty text.
on_err_send_empty(slot) == Slot("value", <<>>)

\* Lines 104-106: the error is logged and nothing is sent on reply_tx.
on_err(slot) == slot

\* Lines 95-99 and the first half of Chat::message (llama.rs:49-58): take or
\* create the session, push the user message, start the POST.
RecvChat(req, rest) ==
    LET c == remove_or_new(state, req.room_id, nChats)
        c1 == PushUser(c, req.prompt)
        new == c.sid = nChats + 1
    IN  /\ mailbox' = rest
        /\ last_req' = req
        /\ state' = remove(state, req.room_id)
        /\ nChats' = IF new THEN nChats + 1 ELSE nChats
        /\ created' = [created EXCEPT ![req.room_id] = IF new THEN @ + 1 ELSE @]
        /\ after_clear' = cleared[req.room_id]
        /\ cleared' = [cleared EXCEPT ![req.room_id] = "no"]
        /\ chat' = c1
        /\ chat_req' = req
        /\ nCalls' = nCalls + 1
        /\ calls' = calls \cup {[n |-> nCalls + 1, sid |-> c1.sid, messages |-> c1.messages]}
        /\ turns' = [turns EXCEPT ![req.room_id] =
                       Append(@, [prompt |-> req.prompt, n |-> nCalls + 1, res |-> "pending"])]
        /\ apc' = "message"

\* What a clear found in the map: nothing, a session whose last round trip
\* succeeded, or one whose last round trip failed (its last message is the
\* unanswered prompt).
Removed(c) ==
    IF c = NoChat THEN "nothing"
    ELSE IF c.messages[Len(c.messages)].role = "user" THEN "failed_session"
    ELSE "session"

\* Lines 110-112.
RecvClrCtx(req, rest) ==
    /\ mailbox' = rest
    /\ last_req' = req
    /\ state' = clear(state, req.room_id)
    /\ created' = [created EXCEPT ![req.room_id] = 0]
    /\ cleared' = [cleared EXCEPT ![req.room_id] = Removed(state[req.room_id])]
    /\ turns' = [turns EXCEPT ![req.room_id] = <<>>]
    /\ UNCHANGED <<apc, chat, chat_req, calls, nChats, nCalls, after_clear>>

\* One turn of the loop at lines 93-94 with a request available.
Recv ==
    /\ AtRecv
    /\ mailbox # <<>>
    /\ LET r == recv(mailbox)
       IN  IF r.item.kind = "Chat"
           THEN RecvChat(r.item, r.rest)
           ELSE RecvClrCtx(r.item, r.rest)
    /\ UNCHANGED <<hpc, hev, oneshot, typing, sent, beats, senders>>
    /\ UNCHANGED <<hist, old>>

\* Lines 113-115: recv returns None once the queue is empty and every
\* Sender is gone; llama_task returns and its session map is dropped.
RecvNone ==
    /\ AtRecv
    /\ mailbox = <<>>
    /\ ~Producers
    /\ apc' = "returned"
    /\ state' = [rm \in Rooms |-> NoChat]
    /\ created' = [rm \in Rooms |-> 0]
    /\ cleared' = [rm \in Rooms |-> "no"]
    /\ turns' = [rm \in Rooms |-> <<>>]
    /\ UNCHANGED <<chat, chat_req, calls, nChats, nCalls, last_req, after_clear>>
    /\ UNCHANGED <<hpc, hev, oneshot, typing, sent, beats, mailbox, senders>>
    /\ UNCHANGED <<hist, old>>

\* A panic unwinds llama_task: its locals, the session map and the mpsc
\* receiver are dropped, and with the receiver every queued request, so the
\* oneshot senders they hold are dropped too.
Unwind(h) ==
    /\ apc' = "panicked"
    /\ oneshot' = [g \in Handlers |->
                     IF g = h \/ \E i \in 1..Len(mailbox) : mailbox[i].reply_tx = g
                     THEN sender_dropped(oneshot[g]) ELSE oneshot[g]]
    /\ mailbox' = <<>>
    /\ state' = [rm \in Rooms |-> NoChat]
    /\ chat' = NoChat
    /\ chat_req' = NoReq
    /\ created' = [rm \in Rooms |-> 0]
    /\ cleared' = [rm \in Rooms |-> "no"]
    /\ after_clear' = "no"
    /\ turns' = [rm \in Rooms |-> <<>>]

\* Line 108 and the end of the match arm: the session goes back into the
\* map, chat_req goes out of scope and the loop returns to recv.
EndOfArm(c) ==
    /\ state' = insert(state, chat_req.room_id, c)
    /\ chat' = NoChat
    /\ chat_req' = NoReq
    /\ after_clear' = "no"
    /\ apc' = "recv"
    /\ UNCHANGED <<mailbox, created, cleared>>

\* History: the round trip of the room's last dequeued request ended with res.
Ended(t, rm, res) == [t EXCEPT ![rm][Len(t[rm])].res = res]

\* The round trip awaited at line 100 ends with outcome o, and lines
\* 101-108 run.
MessageDone(o) ==
    /\ apc = "message"
    /\ LET h == chat_req.reply_tx
           call == CHOOSE c \in calls : c.sid = chat.sid
           resp == ReplyText(call.n)
           slot_err == on_err(oneshot[h])
       IN  /\ calls' = calls \ {call}
           /\ outcome' = [outcome EXCEPT ![h] = o]
           /\ CASE o = "ok" ->
                   \* llama.rs:63-69, then reply_tx.send(resp).unwrap()
                   /\ generated' = [generated EXCEPT ![h] =
                         Answer(call.messages[Len(call.messages)].content, resp)]
                   /\ IF hpc[h] \in {"waiting", "resolved"}
                      THEN /\ oneshot' = [oneshot EXCEPT ![h] = on_ok(@, resp)]
                           /\ writes' = [writes EXCEPT ![h] = Append(@, resp)]
                           /\ EndOfArm(PushAssistant(chat, resp))
                           /\ turns' = Ended(turns, chat_req.room_id, "ok")
                      ELSE \* the receiver is gone: send fails, unwrap panics
                           /\ Unwind(h)
                           /\ UNCHANGED writes
                [] o = "err" ->
                   \* llama.rs:59/61 return early; main.rs:104-108
                   /\ oneshot' = [oneshot EXCEPT ![h] = sender_dropped(slot_err)]
                   /\ writes' = [writes EXCEPT ![h] =
                                   IF slot_err # oneshot[h] THEN Append(@, slot_err.val) ELSE @]
                   /\ EndOfArm(chat)
                   /\ turns' = Ended(turns, chat_req.room_id, "err")
                   /\ UNCHANGED generated
                [] o = "bad_role" ->
                   \* llama.rs:63: assert_eq! panics inside chat.message
                   /\ Unwind(h)
                   /\ UNCHANGED <<writes, generated>>
    /\ UNCHANGED <<hpc, hev, typing, sent, beats, senders, old, nChats, nCalls, last_req>>

\* =========================================================================
\* Spec: NHandlers events, each handled by an instance of its own, all
\* running concurrently with each other and with llama_task.
Next ==
    \/ \E h \in Handlers, ev \in CoreEvents : HandleEvent(h, ev) /\ UNCHANGED tvars
    \/ \E h \in Handlers : SendClrCtx(h) /\ UNCHANGED tvars
    \/ \E h \in Handlers : ConfirmCleared(h) /\ UNCHANGED tvars
    \/ \E h \in Handlers : SendChat(h) /\ UNCHANGED tvars
    \/ \E h \in Handlers : Heartbeat(h) /\ UNCHANGED tvars
    \/ \E h \in Handlers : ReplyResolved(h) /\ UNCHANGED tvars
    \/ \E h \in Handlers : DeliverReply(h) /\ UNCHANGED tvars
    \/ Recv /\ UNCHANGED tvars
    \/ \E o \in Outcomes : MessageDone(o) /\ UNCHANGED tvars
    \/ DropSenders /\ UNCHANGED tvars
    \/ RecvNone /\ UNCHANGED tvars

Spec == Init /\ [][Next]_vars

\* SpecReply: the handlers and llama_task of Spec while the client exists
\* and without the timer arm of the select!: a sleep completes only once
\* every 3 s, so the timer arm cannot keep the reply arm from being taken.
NextReply ==
    \/ \E h \in Handlers, ev \in CoreEvents : HandleEvent(h, ev) /\ UNCHANGED tvars
    \/ \E h \in Handlers : SendClrCtx(h) /\ UNCHANGED tvars
    \/ \E h \in Handlers : ConfirmCleared(h) /\ UNCHANGED tvars
    \/ \E h \in Handlers : SendChat(h) /\ UNCHANGED tvars
    \/ \E h \in Handlers : ReplyResolved(h) /\ UNCHANGED tvars
    \/ \E h \in Handlers : DeliverReply(h) /\ UNCHANGED tvars
    \/ Recv /\ UNCHANGED tvars
    \/ \E o \in Outcomes : MessageDone(o) /\ UNCHANGED tvars

SpecReply == Init /\ [][NextReply]_vars

\* FairReply: SpecReply where llama_task keeps running (it takes the next
\* request when there is one, and every round trip it awaits ends) and
\* where a handler whose oneshot has resolved is polled: it takes the reply
\* arm of its select! and goes on to send the reply.
FairReply ==
    /\ SpecReply
    /\ WF_vars(Recv /\ UNCHANGED tvars)
    /\ WF_vars(\E o \in Outcomes : MessageDone(o) /\ UNCHANGED tvars)
    /\ \A h \in Handlers : WF_vars(ReplyResolved(h) /\ UNCHANGED tvars)
    /\ \A h \in Handlers : WF_vars(DeliverReply(h) /\ UNCHANGED tvars)

\* SpecSeq: any number of events of every kind, dispatched one after the
\* other (an event is handled once the handler of the previous one has
\* completed), still concurrently with llama_task. llama_task handles one
\* request at a time in mailbox order, so what it does depends on the
\* sequence of requests only, and every sequence arises here.
NextEvent(ev) ==
    /\ Route(ev) = "Chat" => Prompts < MaxPrompts
    /\ HandleEvent(1, ev)

NextSeq ==
    \/ \E ev \in Events : NextEvent(ev) /\ UNCHANGED tvars
    \/ SendClrCtx(1) /\ UNCHANGED tvars
    \/ ConfirmCleared(1) /\ UNCHANGED tvars
    \/ SendChat(1) /\ UNCHANGED tvars
    \/ Heartbeat(1) /\ UNCHANGED tvars
    \/ ReplyResolved(1) /\ UNCHANGED tvars
    \/ DeliverReply(1) /\ UNCHANGED tvars
    \/ HandlerExit(1) /\ UNCHANGED tvars
    \/ Recv /\ UNCHANGED tvars
    \/ \E o \in Outcomes : MessageDone(o) /\ UNCHANGED tvars

SpecSeq == Init /\ [][NextSeq]_vars

\* =========================================================================
\* SpecClr: prompts and clear commands for one room. Each prompt is handled
\* by an instance of its own, as in Spec; the instance that handled a clear
\* command completes and is free for the next event, so that any number of
\* clears reach the mailbox while prompts for the room are queued, in flight
\* or answered. Every reply resolves before the first sleep of its handler's
\* loop completes, so the timer arm is never taken.
RoomEvents == {Ev("d", B_hello), Ev("d", B_llama_llamaclear)}

ClearDone(h) ==
    /\ Route(hev[h]) = "ClrCtx"
    /\ HandlerExit(h)

NextClr ==
    \/ \E h \in Handlers, ev \in RoomEvents : HandleEvent(h, ev) /\ UNCHANGED tvars
    \/ \E h \in Handlers : SendClrCtx(h) /\ UNCHANGED tvars
    \/ \E h \in Handlers : ConfirmCleared(h) /\ UNCHANGED tvars
    \/ \E h \in Handlers : ClearDone(h) /\ UNCHANGED tvars
    \/ \E h \in Handlers : SendChat(h) /\ UNCHANGED tvars
    \/ \E h \in Handlers : ReplyResolved(h) /\ UNCHANGED tvars
    \/ \E h \in Handlers : DeliverReply(h) /\ UNCHANGED tvars
    \/ Recv /\ UNCHANGED tvars
    \/ \E o \in Outcomes : MessageDone(o) /\ UNCHANGED tvars

SpecClr == Init /\ [][NextClr]_vars

\* =========================================================================
\* SpecQueue: prompts and clear commands for one room, dispatched one after
\* the other as in SpecSeq. A clear command is handled without waiting for
\* llama_task, so clear commands fill the mailbox when llama_task is slow to
\* take them, and the next send finds it full.
NextQueue ==
    \/ \E ev \in RoomEvents : NextEvent(ev) /\ UNCHANGED tvars
    \/ SendClrCtx(1) /\ UNCHANGED tvars
    \/ ConfirmCleared(1) /\ UNCHANGED tvars
    \/ SendChat(1) /\ UNCHANGED tvars
    \/ Heartbeat(1) /\ UNCHANGED tvars
    \/ ReplyResolved(1) /\ UNCHANGED tvars
    \/ DeliverReply(1) /\ UNCHANGED tvars
    \/ HandlerExit(1) /\ UNCHANGED tvars
    \/ Recv /\ UNCHANGED tvars
    \/ \E o \in Outcomes : MessageDone(o) /\ UNCHANGED tvars

SpecQueue == Init /\ [][NextQueue]_vars

\* FairQueue: SpecQueue where llama_task keeps running (it takes the next
\* request when there is one, and every round trip it awaits ends) and where
\* a send completes once the mailbox has room for it.
FairQueue ==
    /\ SpecQueue
    /\ WF_vars(Recv /\ UNCHANGED tvars)
    /\ WF_vars(\E o \in Outcomes : MessageDone(o) /\ UNCHANGED tvars)
    /\ WF_vars(SendClrCtx(1) /\ UNCHANGED tvars)
    /\ WF_vars(SendChat(1) /\ UNCHANGED tvars)

\* =========================================================================
\* SpecTimer: one prompt, its handler and llama_task, with the time the
\* handler spends in its loop counted in seconds. The handler task runs as
\* soon as one of the futures it awaits is ready, so time does not pass
\* while an arm of the select! is ready and the handler is polling it.

\* main.rs:178, Duration::from_secs(3)
Interval == 3

\* Faulty variant: a sleep that is complete as soon as it is created.
sleep_zero(t) == t

\* main.rs:178: the sleep created when the select! is entered at time t.
sleep(t) == t + Interval

\* An arm of the select! at line 177 is ready.
TimerReady == now >= sleep_until
ReplyReady == oneshot[1].st \in {"value", "closed"}
\* The handler is at the select!, not inside typing_notice(true).await.
Polling == hpc[1] = "waiting" /\ now >= busy_until

TimerEvent(ev) ==
    /\ Route(ev) = "Chat"
    /\ HandleEvent(1, ev)
    /\ UNCHANGED tvars

\* Lines 172-177: the request is sent and the loop entered; the first
\* select! creates the first sleep.
TimerSendChat ==
    /\ SendChat(1)
    /\ now' = 0
    /\ busy_until' = 0
    /\ sleep_until' = sleep(0)
    /\ UNCHANGED resolved_at

\* A second passes.
Tick ==
    /\ hpc[1] = "waiting"
    /\ now < MaxWait
    /\ ~(Polling /\ (ReplyReady \/ (TimerReady /\ beats < MaxBeats)))
    /\ now' = now + 1
    /\ UNCHANGED <<hpc, hev, oneshot, typing, sent, beats, mailbox>>
    /\ UNCHANGED <<avars, hist, senders, old, sleep_until, busy_until, resolved_at>>

\* Lines 178-180: the sleep is complete and its arm is taken; the call
\* typing_notice(true).await takes d seconds, then the next turn of the loop
\* creates the next sleep.
TimerHeartbeat ==
    /\ Polling
    /\ TimerReady
    /\ Heartbeat(1)
    /\ \E d \in 0..MaxNotice :
          /\ busy_until' = now + d
          /\ sleep_until' = sleep(now + d)
    /\ UNCHANGED <<now, resolved_at>>

\* Lines 181-182: the reply arm is taken.
TimerReplyResolved ==
    /\ Polling
    /\ ReplyResolved(1)
    /\ UNCHANGED tvars

\* The round trip ends and llama_task resolves the oneshot.
TimerMessageDone(o) ==
    /\ MessageDone(o)
    /\ resolved_at' = now
    /\ UNCHANGED <<now, sleep_until, busy_until>>

NextTimer ==
    \/ \E ev \in CoreEvents : TimerEvent(ev)
    \/ TimerSendChat
    \/ Tick
    \/ TimerHeartbeat
    \/ TimerReplyResolved
    \/ DeliverReply(1) /\ UNCHANGED tvars
    \/ Recv /\ UNCHANGED tvars
    \/ \E o \in Outcomes : TimerMessageDone(o)

SpecTimer == Init /\ [][NextTimer]_vars

\* =========================================================================
\* Properties
\* =========================================================================

\* C1: llama_task takes requests in exactly the order the mailbox accepted
\* them, whatever room they target, and only when the previous request is
\* fully processed. Every send appends at the tail of the queue; every
\* dequeue happens with llama_task at recv and no round trip running, takes
\* the head and leaves the rest of the queue in order.
C1_Step ==
    /\ Len(mailbox') > Len(mailbox) =>
          \E h \in Handlers :
              /\ hpc[h] \in {"send_chat", "send_clr"}
              /\ Len(mailbox') = Len(mailbox) + 1
              /\ SubSeq(mailbox', 1, Len(mailbox)) = mailbox
              /\ mailbox'[Len(mailbox')].room_id = hev[h].room
    /\ (Len(mailbox') < Len(mailbox) /\ apc' # "panicked") =>
          /\ apc = "recv" /\ calls = {} /\ chat_req = NoReq
          /\ last_req' = mailbox[1]
          /\ \A i \in 1..Len(mailbox') : mailbox'[i] = mailbox[i + 1]
          /\ Len(mailbox') = Len(mailbox) - 1
C1_FifoOrder == [][C1_Step]_vars

\* C1 witness: a request has been taken while a different one, accepted
\* later and for another room, is still queued.
C1_Witness ==
    /\ last_req # NoReq
    /\ mailbox # <<>>
    /\ mailbox[1].room_id # last_req.room_id

\* C2: at most one round trip is in flight, and it is the one llama_task
\* awaits for its current request.
C2_OneRoundTrip ==
    /\ Cardinality(calls) <= 1
    /\ calls # {} => /\ apc = "message"
                     /\ chat_req.kind = "Chat"
                     /\ \A c \in calls : c.sid = chat.sid /\ c.messages = chat.messages
    /\ apc = "message" => calls # {}

\* C2 witness: a round trip is in flight while a second prompt for the same
\* room waits in the mailbox.
C2_Witness ==
    /\ Cardinality(calls) = 1
    /\ \E i \in 1..Len(mailbox) :
          mailbox[i].kind = "Chat" /\ mailbox[i].room_id = chat_req.room_id

\* The sessions that exist for a room: the one in the map and the one
\* llama_task holds while its round trip runs.
SessionsOf(rm) ==
    (IF state[rm] # NoChat THEN 1 ELSE 0)
    + (IF chat # NoChat /\ chat_req.room_id = rm THEN 1 ELSE 0)

\* C3: since a room's last clear, Chat::new was called for it exactly once if
\* it has a session and not at all otherwise; a room never has two sessions,
\* and no session object serves two rooms.
C3_OneSession ==
    /\ \A rm \in Rooms : SessionsOf(rm) <= 1 /\ created[rm] = SessionsOf(rm)
    /\ \A r1, r2 \in Rooms :
          (r1 # r2 /\ state[r1] # NoChat /\ state[r2] # NoChat) => state[r1].sid # state[r2].sid
    /\ \A rm \in Rooms :
          (chat # NoChat /\ state[rm] # NoChat) => state[rm].sid # chat.sid

\* C3 witness: the second prompt of a room is being served and only one
\* session was ever created.
C3_Witness ==
    /\ apc = "message"
    /\ nCalls = 2
    /\ nChats = 1
    /\ Len(chat.messages) >= 2

\* C4: a prompt that follows a clear of its room is served as if the room
\* had never been seen: by a session created for it, whose history, as sent
\* to the backend, is the new prompt alone.
C4_FreshAfterClear ==
    (apc = "message" /\ after_clear # "no") =>
        /\ chat = PushUser(ChatNew(nChats), chat_req.prompt)
        /\ \A c \in calls : c.messages = <<Message("user", chat_req.prompt)>>
        /\ \A rm \in Rooms : state[rm].sid # chat.sid

\* C4 witness: the clear had removed a session left behind by a failed
\* round trip.
C4_Witness == apc = "message" /\ after_clear = "failed_session"

\* The positions of the typing_notice(false) calls in a handler's log.
Dones(h) == {i \in 1..Len(typing[h]) : typing[h][i] = FALSE}

\* The handler has taken the reply arm of the select!.
LeftLoop(h) ==
    \/ hpc[h] = "resolved"
    \/ hpc[h] \in {"returned", "panicked"} /\ oneshot[h].st \in {"value", "closed"}

C6_DoneOnce ==
    \A h \in Handlers :
        /\ Cardinality(Dones(h)) <= 1
        /\ \A i \in Dones(h) : i = Len(typing[h])
        /\ Dones(h) # {} <=> LeftLoop(h)
        /\ hpc[h] = "resolved" => sent[h] = <<>>
        /\ (hpc[h] = "returned" /\ oneshot[h].st = "value") =>
              /\ Len(sent[h]) = 1
              /\ sent[h][1].text = oneshot[h].val

\* C6 witness: the timer fired once, then the reply arrived and was sent.
C6_Witness ==
    \E h \in Handlers :
        /\ hpc[h] = "returned"
        /\ typing[h] = <<TRUE, TRUE, FALSE>>
        /\ Len(sent[h]) = 1

\* C7: llama_task sends on a request's oneshot at most once, only when the
\* round trip made for that request's prompt succeeded, and then the reply of
\* that round trip; after a failure, and for a ClrCtx, it sends nothing.
C7_WriteOnSuccessOnly ==
    \A h \in Handlers :
        /\ Len(writes[h]) <= 1
        /\ writes[h] # <<>> =>
              /\ outcome[h] = "ok"
              /\ Route(hev[h]) = "Chat"
              /\ generated[h].prompt = prompt(hev[h])
              /\ writes[h] = <<generated[h].text>>
        /\ oneshot[h].st = "value" <=> writes[h] # <<>>
        /\ oneshot[h].st = "value" => oneshot[h].val = writes[h][1]
        /\ outcome[h] \in {"err", "bad_role"} => writes[h] = <<>>
        /\ Route(hev[h]) # "Chat" => oneshot[h] = NoSlot /\ outcome[h] = "none"

\* C7 witness: one request was answered and another one failed.
C7_Witness ==
    \E h, g \in Handlers :
        /\ Len(writes[h]) = 1
        /\ outcome[g] = "err"
        /\ hpc[g] = "panicked"

\* The replies (as opposed to confirmations) a handler has sent.
IsReply(h, i) == Route(hev[h]) = "Chat"

\* C8: every message a handler sends goes to the room its event came from; a
\* reply carries the text generated by the round trip made for that event's
\* prompt; a prompt gets at most one reply, exactly one once its handler has
\* returned; no reply text is delivered twice.
C8_RepliesToOwnRoom ==
    /\ \A h \in Handlers :
          /\ Len(sent[h]) <= 1
          /\ \A i \in 1..Len(sent[h]) :
                /\ sent[h][i].room = hev[h].room
                /\ IF IsReply(h, i)
                   THEN /\ outcome[h] = "ok"
                        /\ generated[h].prompt = prompt(hev[h])
                        /\ sent[h][i].text = generated[h].text
                   ELSE /\ Route(hev[h]) = "ClrCtx"
                        /\ sent[h][i].text = T_ContextCleared
          /\ (Route(hev[h]) = "Chat" /\ hpc[h] = "returned") => Len(sent[h]) = 1
          /\ (outcome[h] # "ok" /\ Route(hev[h]) = "Chat") => sent[h] = <<>>
    /\ \A h, g \in Handlers :
          (h # g /\ sent[h] # <<>> /\ sent[g] # <<>> /\ IsReply(h, 1) /\ IsReply(g, 1))
              => sent[h][1].text # sent[g][1].text

\* C8 witness: two handlers for different rooms waited at the same time and
\* each room got its reply.
C8_Witness ==
    \E h, g \in Handlers :
        /\ hev[h].room = "d" /\ hev[g].room = "g"
        /\ Len(sent[h]) = 1 /\ Len(sent[g]) = 1
        /\ outcome[h] = "ok" /\ outcome[g] = "ok"
        /\ typing[g] = <<TRUE, TRUE, FALSE>>

\* The requests that exist: queued in the mailbox or held by llama_task.
Requests == {mailbox[i] : i \in 1..Len(mailbox)} \cup ({chat_req} \ {NoReq})

\* A text message of another user.
IsUserText(ev) == ev.sender = "user" /\ ev.msgtype = "text"

\* C9 as stated: a text message whose body is exactly "!llamaclear" leads to
\* a ClrCtx for its room and to no Chat request: its handler never reaches
\* the prompt path.
C9_ClearLiteral ==
    \A h \in Handlers :
        (IsUserText(hev[h]) /\ hev[h].body = T_llamaclear) =>
            /\ hpc[h] \in {"send_clr", "confirm", "returned", "panicked"}
            /\ typing[h] = <<>>
            /\ \A r \in Requests : r.kind = "Chat" => r.reply_tx # h

\* The body starts with the six characters "!llama".
HasLlamaPrefix(b) == Len(b) >= 6 /\ \A i \in 1..6 : b[i] = T_llama[i]

\* C10 as stated: the body "!llama hello" yields the prompt "hello".
C10_PromptHello ==
    \A r \in Requests :
        (r.kind = "Chat" /\ hev[r.reply_tx].body = B_llama_hello) => r.prompt = T_hello

\* C10 amended: for a body that starts with "!llama" exactly these six
\* characters are stripped and nothing else: the prompt prefixed with
\* "!llama" is the body again, so "!llama hello" yields " hello", blank
\* included. The request is a ClrCtx instead when the rest is "!llamaclear".
C10_PrefixStripped ==
    /\ \A r \in Requests :
          r.kind = "Chat" =>
              LET ev == hev[r.reply_tx]
              IN  /\ IsUserText(ev)
                  /\ r.room_id = ev.room
                  /\ HasLlamaPrefix(ev.body) => T_llama \o r.prompt = ev.body
                  /\ ev.body = B_llama_hello => r.prompt = <<" ", "h", "e", "l", "l", "o">>
    /\ \A h \in Handlers :
          (IsUserText(hev[h]) /\ HasLlamaPrefix(hev[h].body)) =>
              /\ hpc[h] \in {"send_chat", "waiting", "resolved"} =>
                    T_llama \o T_llamaclear # hev[h].body
              /\ hpc[h] \in {"send_clr", "confirm"} =>
                    T_llama \o T_llamaclear = hev[h].body

\* C10 witness: the request for "!llama hello" from the multi-party room is
\* in the mailbox.
C10_Witness ==
    \E i \in 1..Len(mailbox) :
        /\ mailbox[i].kind = "Chat"
        /\ hev[mailbox[i].reply_tx] = Ev("g", B_llama_hello)

\* C11: a text message of another user whose body does not start with
\* "!llama" is ignored entirely in the multi-party room: its handler returns
\* at once, makes no typing_notice call, sends no message and creates no
\* request. In the one-to-one room the same message takes the prompt path:
\* the first typing notice is emitted, the only request the handler makes is
\* a Chat for its room whose prompt is the whole body, and the handler waits
\* only once that request was created.
C11_UnprefixedByRoom ==
    \A h \in Handlers :
        (IsUserText(hev[h]) /\ ~HasLlamaPrefix(hev[h].body)) =>
            IF hev[h].room = "g"
            THEN /\ hpc[h] = "returned"
                 /\ typing[h] = <<>>
                 /\ sent[h] = <<>>
                 /\ oneshot[h] = NoSlot
                 /\ \A r \in Requests : r.reply_tx # h
            ELSE /\ hpc[h] \in {"send_chat", "waiting", "resolved", "returned", "panicked"}
                 /\ typing[h] # <<>> /\ typing[h][1] = TRUE
                 /\ \A r \in Requests :
                       r.reply_tx = h =>
                           r = ChatReq(hev[h].room, hev[h].body, h)
                 /\ hpc[h] \in {"waiting", "resolved"} => oneshot[h] # NoSlot
                 /\ (hpc[h] = "waiting" /\ oneshot[h] = EmptySlot) =>
                       ChatReq(hev[h].room, hev[h].body, h) \in Requests

\* C11 witness: "hello" from the multi-party room was dropped while an
\* earlier request was still queued.
C11_Witness ==
    /\ hev[1] = Ev("g", B_hello)
    /\ hpc[1] = "returned"
    /\ mailbox # <<>>

\* The typing_notice(true) calls of a handler: its 'still working' signals.
RECURSIVE CountTrue(_)
CountTrue(q) ==
    IF q = <<>> THEN 0 ELSE (IF Head(q) THEN 1 ELSE 0) + CountTrue(Tail(q))
StillWorking(h) == CountTrue(typing[h])

C13_NeverPanics ==
    /\ apc # "panicked"
    /\ \A h \in Handlers : hpc[h] # "panicked"
    /\ \A h \in Handlers :
          outcome[h] = "err" => apc \in {"recv", "message"}

\* llama_task has ended, by returning or by unwinding.
Terminated == apc \in {"returned", "panicked"}

\* C14 as stated: llama_task never terminates while a Sender of the mailbox
\* exists or while a request it accepted is unprocessed: once it has
\* terminated every Sender is gone, the mailbox is empty and every Chat
\* request that was accepted has had its round trip.
C14_RunsUntilClosed ==
    Terminated =>
        /\ ~senders
        /\ mailbox = <<>>
        /\ \A h \in Handlers : oneshot[h] # NoSlot => outcome[h] # "none"

\* The copies of the Chat request of handler h that llama_task holds or will
\* receive.
CopiesOf(h) ==
    Cardinality({i \in 1..Len(mailbox) : mailbox[i].reply_tx = h})
        + (IF chat_req.reply_tx = h THEN 1 ELSE 0)

Sending(h) == hpc[h] \in {"send_clr", "send_chat"}

\* C15: the mailbox never holds more than MailboxCap requests; a handler
\* whose send finds the mailbox full stays in the send, the request in its
\* hands, until there is room; while llama_task runs, an accepted Chat request
\* is in the mailbox or being processed exactly once until its round trip
\* has ended and never after, and llama_task takes requests off the head of
\* the mailbox one at a time. With llama_task making progress, every send
\* of a ClrCtx is eventually accepted, and every send of a Chat request is
\* eventually accepted and the request has its round trip (unless llama_task
\* has terminated).
C15_Backpressure ==
    /\ [](Len(mailbox) <= MailboxCap)
    /\ [](\A h \in Handlers :
            /\ oneshot[h] = NoSlot => CopiesOf(h) = 0
            /\ (oneshot[h] # NoSlot /\ ~Terminated) =>
                  CopiesOf(h) + (IF outcome[h] # "none" THEN 1 ELSE 0) = 1)
    /\ [][\A h \in Handlers :
            (Sending(h) /\ Len(mailbox) = MailboxCap /\ ~Terminated) =>
                hpc'[h] = hpc[h] /\ hev'[h] = hev[h]]_vars
    /\ [][(Len(mailbox') < Len(mailbox) /\ ~Terminated') =>
            mailbox' = Tail(mailbox) /\ last_req' = Head(mailbox)]_vars
    /\ \A h \in Handlers :
          Sending(h) ~> (hpc[h] = "confirm" \/ outcome[h] # "none" \/ Terminated)

\* C15 witness: the mailbox is full of clear commands and the handler of a
\* prompt is suspended in its send, after an earlier prompt was answered.
C15_Witness ==
    /\ Len(mailbox) = MailboxCap
    /\ ~Terminated
    /\ hpc[1] = "send_chat"
    /\ nCalls = 1

\* llama_task takes a ClrCtx off the head of the mailbox.
ClrCtxStep ==
    /\ apc = "recv"
    /\ mailbox # <<>>
    /\ Head(mailbox).kind = "ClrCtx"
    /\ mailbox' = Tail(mailbox)

\* C16: processing ClrCtx(id) leaves no session for id (it removes the one
\* that is there and does nothing when there is none), leaves the session
\* of every other room as it is, resolves no oneshot, creates no session and
\* starts no backend call; llama_task is at recv again.
C16_ClearOnlyThatRoom ==
    [][ClrCtxStep =>
          LET id == Head(mailbox).room_id
          IN  /\ state'[id] = NoChat
              /\ \A rm \in Rooms \ {id} : state'[rm] = state[rm]
              /\ state[id] = NoChat => state' = state
              /\ oneshot' = oneshot
              /\ writes' = writes
              /\ calls' = calls /\ nCalls' = nCalls /\ nChats' = nChats
              /\ chat' = chat /\ chat_req' = chat_req
              /\ apc' = "recv"]_vars

\* C16 witness: the last request was a ClrCtx that removed a session while
\* the other room keeps its session.
C16_Witness ==
    /\ last_req.kind = "ClrCtx"
    /\ cleared[last_req.room_id] = "session"
    /\ state[last_req.room_id] = NoChat
    /\ \E rm \in Rooms : state[rm] # NoChat

\* C17: a handler whose Chat request was accepted is not left waiting: its
\* request has its round trip, however many requests were queued before it
\* (unless llama_task has terminated, when its oneshot resolves as closed);
\* and once the round trip has succeeded the handler observes the oneshot
\* resolve, emits the 'done' signal and sends the reply to its room.
C17_ReplyDelivered ==
    /\ \A h \in Handlers :
          (hpc[h] = "waiting") ~> (outcome[h] # "none" \/ Terminated)
    /\ \A h \in Handlers :
          (outcome[h] = "ok") ~>
              /\ hpc[h] = "returned"
              /\ Cardinality(Dones(h)) = 1
              /\ sent[h] = <<[room |-> hev[h].room, text |-> generated[h].text]>>

\* C17 witness: the prompt of the multi-party room was queued behind the
\* prompt of the one-to-one room, whose round trip failed; its own round
\* trip succeeded and its reply was sent.
C17_Witness ==
    \E h, g \in Handlers :
        /\ hev[g].room = "d" /\ outcome[g] = "err"
        /\ hev[h].room = "g" /\ outcome[h] = "ok"
        /\ generated[h].text = ReplyText(2)
        /\ hpc[h] = "returned"
        /\ sent[h] = <<[room |-> "g", text |-> ReplyText(2)]>>

\* The history of a room as its requests since the last clear determine it:
\* each prompt, followed by its reply if its round trip succeeded.
RECURSIVE History(_)
History(t) ==
    IF t = <<>> THEN <<>>
    ELSE <<Message("user", Head(t).prompt)>>
             \o (IF Head(t).res = "ok"
                 THEN <<Message("assistant", ReplyText(Head(t).n))>> ELSE <<>>)
             \o History(Tail(t))

\* Every round trip of the room since its last clear, the last one apart,
\* succeeded.
EarlierOk(t) == \A i \in 1..Len(t) - 1 : t[i].res = "ok"

\* The reply texts of the backend calls made for the other rooms.
RepliesElsewhere(rm) ==
    {ReplyText(n) : n \in {m \in 1..nCalls :
        \E r \in Rooms \ {rm} : \E i \in 1..Len(turns[r]) : turns[r][i].n = m}}

\* C18: when the earlier round trips of a room succeeded, the history sent
\* to the backend for the room's k-th prompt since its last clear is the k-1
\* earlier prompts, each followed by its reply, in order, and then the new
\* prompt, 2k-1 messages in all; it holds no reply made for another room;
\* and the session stored for a room is the history of that room's own
\* requests. A step of llama_task that does not end it changes the stored
\* session of no room but the one whose request it is processing.
C18_HistoryPerRoom ==
    /\ [](\A call \in calls :
            LET rm == chat_req.room_id
                t == turns[rm]
            IN  EarlierOk(t) =>
                    /\ call.messages = History(t)
                    /\ Len(call.messages) = 2 * Len(t) - 1
                    /\ call.messages[Len(call.messages)] = Message("user", chat_req.prompt)
                    /\ \A i \in 1..Len(call.messages) :
                          call.messages[i].content \notin RepliesElsewhere(rm))
    /\ [](\A rm \in Rooms :
            (state[rm] # NoChat /\ EarlierOk(turns[rm])) =>
                state[rm].messages = History(turns[rm]))
    /\ [][\A rm \in Rooms :
            (state'[rm] # state[rm] /\ ~Terminated') =>
                rm = (IF apc = "message" THEN chat_req.room_id
                      ELSE Head(mailbox).room_id)]_vars

\* C18 witness: the second prompt of the one-to-one room since its last
\* clear is at the backend with the first prompt, its reply and the new
\* prompt.
C18_Witness ==
    /\ apc = "message"
    /\ chat_req.room_id = "d"
    /\ Len(turns["d"]) = 2
    /\ turns["d"][1].res = "ok"
    /\ \E call \in calls : Len(call.messages) = 3

\* C19: after a round trip of a room has failed, the room has a session in
\* the map, also when it had none before: its history is what it was before
\* the request plus the failed prompt as a user message, with no reply after
\* it. The next prompt of the room, if no clear comes first, is sent with a
\* history in which the failed prompt is still there, directly followed by
\* the next user message.
C19_FailedPromptKept ==
    /\ \A rm \in Rooms :
          LET t == turns[rm]
          IN  (t # <<>> /\ t[Len(t)].res = "err") =>
                  /\ state[rm] # NoChat
                  /\ state[rm].messages =
                        History(SubSeq(t, 1, Len(t) - 1))
                            \o <<Message("user", t[Len(t)].prompt)>>
    /\ \A call \in calls :
          LET t == turns[chat_req.room_id]
          IN  /\ call.messages = History(t)
              /\ \A i \in 1..Len(t) - 1 :
                    t[i].res = "err" =>
                        \E j \in 1..Len(call.messages) - 1 :
                            /\ call.messages[j] = Message("user", t[i].prompt)
                            /\ call.messages[j + 1].role = "user"
                            /\ j = Len(History(SubSeq(t, 1, i)))

\* C19 witness: the first prompt of the one-to-one room failed; the second
\* is at the backend with the failed prompt before it.
C19_Witness ==
    /\ apc = "message"
    /\ chat_req.room_id = "d"
    /\ Len(turns["d"]) = 2
    /\ turns["d"][1].res = "err"
    /\ \E call \in calls :
          call.messages = <<Message("user", turns["d"][1].prompt),
                            Message("user", chat_req.prompt)>>

\* The handlers whose Chat request was accepted after the last ClrCtx that
\* was accepted for their room.
Recent == {h \in Handlers : oneshot[h] # NoSlot /\ old[h] = "no"}

\* C20: the confirmation "Context cleared" is sent only by a handler whose
\* ClrCtx the mailbox has accepted, whether or not llama_task has processed
\* it. A prompt accepted after that ClrCtx is served with a history made of
\* the prompts accepted after the ClrCtx and their replies only: one user
\* message for each such prompt that has had its round trip or is having
\* it, and no reply but theirs, also when a prompt of the room was queued
\* or in flight when the ClrCtx was accepted.
C20_FreshAfterConfirmedClear ==
    /\ [][\A h \in Handlers :
            /\ (hpc'[h] = "confirm" /\ hpc[h] # "confirm") =>
                  mailbox' = Append(mailbox, ClrCtx(hev[h].room))
            /\ (Len(sent'[h]) > Len(sent[h]) /\ Route(hev[h]) = "ClrCtx") =>
                  /\ hpc[h] = "confirm"
                  /\ sent'[h] = <<[room |-> hev[h].room, text |-> T_ContextCleared]>>]_vars
    /\ [](\A call \in calls :
            chat_req.reply_tx \in Recent =>
                /\ \A i \in 1..Len(call.messages) :
                      call.messages[i].role = "assistant" =>
                          \E h \in Recent :
                              /\ outcome[h] = "ok"
                              /\ generated[h].text = call.messages[i].content
                /\ Cardinality({i \in 1..Len(call.messages) :
                                   call.messages[i].role = "user"})
                      = Cardinality({h \in Recent :
                                       outcome[h] # "none" \/ h = chat_req.reply_tx}))

\* C20 witness: a prompt of the room was queued or in flight when the
\* ClrCtx was accepted and has been answered since; the clear command was
\* confirmed; the prompt accepted after it is at the backend with a history
\* of its own prompt only.
C20_Witness ==
    /\ apc = "message"
    /\ chat_req.reply_tx \in Recent
    /\ \E h \in Handlers : old[h] = "pending" /\ outcome[h] = "ok"
    /\ \E call \in calls : call.messages = <<Message("user", chat_req.prompt)>>

====
